---------------------------- MODULE Spec2Model ----------------------------
(***************************************************************************)
(* The filtering pass of process_vcf in                                    *)
(* src/Deepvarient-filter/filter_cluster_v6.0.py (lines 185-245): a        *)
(* stream of VCF lines is read one by one, header lines are printed at     *)
(* once, data lines are parsed and walked against a pending buffer, and    *)
(* the buffer is flushed at end of input.                                  *)
(*                                                                         *)
(* A line is [hash, fields]: hash says whether the text starts with '#',   *)
(* fields are the tab-separated pieces (line.split('\t')).  A position is  *)
(* decimal text; int() is modelled by ParseInt.                            *)
(*                                                                         *)
(* Two variables are history only: every buffered record and every printed *)
(* line carries idx, the number of the input line it came from, and        *)
(* removed is the set of idx counted in removed_count.  The variable       *)
(* second holds the result of running the program again on the output of   *)
(* a finished run (FilterPass, the same pass as a function of a file).     *)
(***************************************************************************)
EXTENDS Integers, Sequences, FiniteSets, TLC

VARIABLES
    input,          \* the lines read from the file so far
    rest,           \* the lines still to come when the file is fixed
    open,           \* TRUE while the file's remaining lines are not fixed
    pc,             \* "reading", "done" or "crashed"
    buffer,         \* process_vcf's buffer
    kept_count,
    removed_count,
    out,            \* the lines printed to the record output, in order
    removed,        \* history: the idx of every record counted as removed
    thresh_sdr,
    thresh_other,
    second          \* the result of running the pass again on out

vars == <<input, rest, open, pc, buffer, kept_count, removed_count, out,
          removed, thresh_sdr, thresh_other, second>>

---------------------------------------------------------------------------
(* Bounds of the model. *)

\* the longest file whose lines are chosen freely
MaxLen == 4
\* the largest position of a freely chosen record
MaxPos == 2
\* the largest value drawn for int(-log(1 - p) / het)
MaxCalc == 1
\* the smallest --min-threshold of a freely chosen run
LowMinThreshold == 0
\* the longest evenly spaced file
RunLen == 10

(* Program constants. *)

\* --min-threshold's default
DefaultMinThreshold == 10

sdr_chrom == "Chr1_RagTag"

Chroms == {sdr_chrom, "Chr2_RagTag"}

Max(a, b) == IF a >= b THEN a ELSE b

---------------------------------------------------------------------------
(* Lines and their parsing. *)

MaxInt == Max(MaxPos, (RunLen + 1) * DefaultMinThreshold)

\* the decimal text of every position the model uses
IntText == [n \in 0..MaxInt |-> ToString(n)]

\* the number each decimal text stands for
IntOf == [s \in {IntText[n] : n \in 0..MaxInt} |->
             CHOOSE n \in 0..MaxInt : IntText[n] = s]

\* int(s): the number when s is decimal text, ValueError otherwise
ParseInt(s) ==
    IF s \in DOMAIN IntOf
    THEN [ok |-> TRUE, val |-> IntOf[s]]
    ELSE [ok |-> FALSE, val |-> 0]

HeaderLine == [hash |-> TRUE, fields |-> <<"#CHROM", "POS">>]
\* a line without a tab: split gives one field
ShortLine == [hash |-> FALSE, fields |-> <<"Chr2_RagTag">>]
\* a line whose second field is no integer
BadPosLine == [hash |-> FALSE, fields |-> <<"Chr2_RagTag", "x">>]
DataLine(c, p) == [hash |-> FALSE, fields |-> <<c, IntText[p]>>]

Lines ==
    {HeaderLine, ShortLine, BadPosLine}
        \cup {DataLine(c, p) : c \in Chroms, p \in 1..MaxPos}

\* line.startswith("#")
StartsWithHash(line) == line.hash

\* fields[1] raises IndexError
RaisesIndexError(line) == Len(line.fields) < 2

\* int(fields[1]) raises ValueError
RaisesValueError(line) ==
    /\ Len(line.fields) >= 2
    /\ ~ParseInt(line.fields[2]).ok

WellFormed(line) ==
    /\ ~StartsWithHash(line)
    /\ ~RaisesIndexError(line)
    /\ ~RaisesValueError(line)

ChromOf(line) == line.fields[1]
PosOf(line) == ParseInt(line.fields[2]).val

---------------------------------------------------------------------------
(* Thresholds. *)

\* calculate_dist_threshold, with calc_thresh standing for
\* int(-math.log(1 - p_value) / het) and het_tiny for het <= 1e-9
calculate_dist_threshold(het_tiny, calc_thresh, min_threshold) ==
    IF het_tiny THEN min_threshold ELSE Max(calc_thresh, min_threshold)

\* SelectThresh with the two thresholds taken the wrong way round
SelectThreshSwapped(chrom, t_sdr, t_other) ==
    IF chrom = sdr_chrom THEN t_other ELSE t_sdr

\* current_thresh
SelectThresh(chrom, t_sdr, t_other) ==
    IF chrom = sdr_chrom THEN t_sdr ELSE t_other

---------------------------------------------------------------------------
(* The walk of the buffer for one record. *)

\* NewVar with keep starting false
NewVarNotKept(line, idx) ==
    [line |-> line, chrom |-> ChromOf(line), pos |-> PosOf(line),
     keep |-> FALSE, idx |-> idx]

\* current_var
NewVar(line, idx) ==
    [line |-> line, chrom |-> ChromOf(line), pos |-> PosOf(line),
     keep |-> TRUE, idx |-> idx]

\* Emit printing the line just read instead of the flushed record's
EmitCurrentLine(var, line) == line

\* the text print() writes for a flushed record
Emit(var, line) == var.line

\* OtherChrom never releasing the old chromosome's records
OtherChromNever(prev_var, chrom) == FALSE

\* prev_var['chrom'] != chrom
OtherChrom(prev_var, chrom) == prev_var.chrom # chrom

\* Safe with >= for >
SafeAtThreshold(dist, current_thresh) == dist >= current_thresh

\* dist > current_thresh
Safe(dist, current_thresh) == dist > current_thresh

\* Flush printing the record whatever its keep
FlushPrintsRemoved(var, st) ==
    IF var.keep
    THEN [st EXCEPT !.out = Append(@, [line |-> var.line, idx |-> var.idx]),
                    !.kept_count = @ + 1]
    ELSE [st EXCEPT !.out = Append(@, [line |-> var.line, idx |-> var.idx]),
                    !.removed_count = @ + 1,
                    !.removed = @ \cup {var.idx}]

\* Flush without the else branch: a removed record is not counted
FlushForgetsRemoved(var, st) ==
    IF var.keep
    THEN [st EXCEPT !.out = Append(@, [line |-> var.line, idx |-> var.idx]),
                    !.kept_count = @ + 1]
    ELSE [st EXCEPT !.removed = @ \cup {var.idx}]

\* emit the record if keep, count it as removed otherwise
Flush(var, st) ==
    IF var.keep
    THEN [st EXCEPT !.out = Append(@, [line |-> Emit(var, st.cur.line),
                                       idx |-> var.idx]),
                    !.kept_count = @ + 1]
    ELSE [st EXCEPT !.removed_count = @ + 1,
                    !.removed = @ \cup {var.idx}]

\* Conflict without prev_var['keep'] = False
ConflictMarksCurrentOnly(prev_var, st) ==
    [st EXCEPT !.cur.keep = FALSE,
               !.new_buffer = Append(@, prev_var)]

\* the conflict branch: both lose keep, prev_var stays buffered
Conflict(prev_var, st) ==
    [st EXCEPT !.cur.keep = FALSE,
               !.new_buffer = Append(@, [prev_var EXCEPT !.keep = FALSE])]

RECURSIVE Walk(_, _, _)
\* for prev_var in buffer
Walk(buf, current_thresh, st) ==
    IF buf = <<>> THEN st
    ELSE LET prev_var == Head(buf)
             st2 == IF OtherChrom(prev_var, st.cur.chrom)
                    THEN Flush(prev_var, st)
                    ELSE IF Safe(st.cur.pos - prev_var.pos, current_thresh)
                         THEN Flush(prev_var, st)
                         ELSE Conflict(prev_var, st)
         IN  Walk(Tail(buf), current_thresh, st2)

RECURSIVE DrainAll(_, _)
\* for var in buffer, after the file is read
DrainAll(buf, st) ==
    IF buf = <<>> THEN st
    ELSE DrainAll(Tail(buf), Flush(Head(buf), [st EXCEPT !.cur = Head(buf)]))

---------------------------------------------------------------------------
(* The pass as a function of its state.  A state of the pass is            *)
(* [pc, buffer, kept_count, removed_count, out, removed].                  *)

\* the state before the first line is read
Begin ==
    [pc |-> "reading", buffer |-> <<>>, kept_count |-> 0,
     removed_count |-> 0, out |-> <<>>, removed |-> {}]

\* one well-formed record against the buffer
ConsumeRecord(ps, line, idx, t_sdr, t_other) ==
    LET current_var == NewVar(line, idx)
        current_thresh == SelectThresh(current_var.chrom, t_sdr, t_other)
        st == Walk(ps.buffer, current_thresh,
                   [cur |-> current_var, new_buffer |-> <<>>,
                    out |-> ps.out, kept_count |-> ps.kept_count,
                    removed_count |-> ps.removed_count,
                    removed |-> ps.removed])
    IN  [pc |-> ps.pc, buffer |-> Append(st.new_buffer, st.cur),
         kept_count |-> st.kept_count, removed_count |-> st.removed_count,
         out |-> st.out, removed |-> st.removed]

\* one iteration of `for line in f`
Consume(ps, line, idx, t_sdr, t_other) ==
    IF StartsWithHash(line)
    THEN [ps EXCEPT !.out = Append(@, [line |-> line, idx |-> idx])]
    ELSE IF RaisesIndexError(line)
         THEN [ps EXCEPT !.pc = "crashed"]
         ELSE IF RaisesValueError(line)
              THEN ps
              ELSE ConsumeRecord(ps, line, idx, t_sdr, t_other)

\* end of file: flush the buffer, report the counts
Finish(ps) ==
    LET st == DrainAll(ps.buffer,
                       [cur |-> NewVar(HeaderLine, 0), new_buffer |-> <<>>,
                        out |-> ps.out, kept_count |-> ps.kept_count,
                        removed_count |-> ps.removed_count,
                        removed |-> ps.removed])
    IN  [pc |-> "done", buffer |-> ps.buffer,
         kept_count |-> st.kept_count, removed_count |-> st.removed_count,
         out |-> st.out, removed |-> st.removed]

RECURSIVE ReadFrom(_, _, _, _, _)
\* the lines of a file from line k on, until an uncaught exception
ReadFrom(lines, k, ps, t_sdr, t_other) ==
    IF k > Len(lines) \/ ps.pc = "crashed" THEN ps
    ELSE ReadFrom(lines, k + 1, Consume(ps, lines[k], k, t_sdr, t_other),
                  t_sdr, t_other)

\* the whole filtering pass over a file
FilterPass(lines, t_sdr, t_other) ==
    LET ps == ReadFrom(lines, 1, Begin, t_sdr, t_other)
    IN  IF ps.pc = "crashed" THEN ps ELSE Finish(ps)

---------------------------------------------------------------------------
(* Initial states. *)

\* a file of n records of one chromosome, spaced exactly d apart
EvenFile(c, n, d) == [k \in 1..n |-> DataLine(c, k * d)]

NotRunAgain == [ran |-> FALSE, pc |-> "reading", out |-> <<>>,
                kept_count |-> 0, removed_count |-> 0]

Fresh ==
    /\ input = <<>>
    /\ pc = Begin.pc
    /\ buffer = Begin.buffer
    /\ kept_count = Begin.kept_count
    /\ removed_count = Begin.removed_count
    /\ out = Begin.out
    /\ removed = Begin.removed
    /\ second = NotRunAgain

\* any file of at most MaxLen lines, small thresholds
InitFree ==
    /\ Fresh
    /\ open = TRUE
    /\ rest = <<>>
    /\ \E het_tiny \in BOOLEAN, calc \in 0..MaxCalc :
          thresh_sdr = calculate_dist_threshold(het_tiny, calc, LowMinThreshold)
    /\ \E het_tiny \in BOOLEAN, calc \in 0..MaxCalc :
          thresh_other = calculate_dist_threshold(het_tiny, calc, LowMinThreshold)

\* the evenly spaced files, under the default --min-threshold
InitEven ==
    /\ Fresh
    /\ open = FALSE
    /\ \E c \in Chroms, n \in 1..RunLen :
          rest = EvenFile(c, n, DefaultMinThreshold)
    /\ thresh_sdr = calculate_dist_threshold(FALSE, 0, DefaultMinThreshold)
    /\ thresh_other = calculate_dist_threshold(FALSE, 0, DefaultMinThreshold)

Init == InitFree \/ InitEven

---------------------------------------------------------------------------
(* Actions: one per way an iteration of `for line in f` can go, the end    *)
(* of the file, and a second run of the program on the output.             *)

\* the state of the pass held in the variables
Now ==
    [pc |-> pc, buffer |-> buffer, kept_count |-> kept_count,
     removed_count |-> removed_count, out |-> out, removed |-> removed]

Becomes(ps) ==
    /\ pc' = ps.pc
    /\ buffer' = ps.buffer
    /\ kept_count' = ps.kept_count
    /\ removed_count' = ps.removed_count
    /\ out' = ps.out
    /\ removed' = ps.removed

\* the lines the next read can return
NextLines ==
    IF open
    THEN IF Len(input) < MaxLen THEN Lines ELSE {}
    ELSE IF rest # <<>> THEN {Head(rest)} ELSE {}

Read(line) ==
    /\ pc = "reading"
    /\ line \in NextLines
    /\ input' = Append(input, line)
    /\ rest' = IF open THEN rest ELSE Tail(rest)
    /\ Becomes(Consume(Now, line, Len(input) + 1, thresh_sdr, thresh_other))
    /\ UNCHANGED <<open, thresh_sdr, thresh_other, second>>

\* a header line is printed at once
PassHeader ==
    \E line \in NextLines :
        /\ StartsWithHash(line)
        /\ Read(line)

\* except ValueError: continue
SkipValueError ==
    \E line \in NextLines :
        /\ ~StartsWithHash(line)
        /\ ~RaisesIndexError(line)
        /\ RaisesValueError(line)
        /\ Read(line)

\* fields[1] of a line without a tab: IndexError is not caught
RaiseIndexError ==
    \E line \in NextLines :
        /\ ~StartsWithHash(line)
        /\ RaisesIndexError(line)
        /\ Read(line)

\* a well-formed record: walk the buffer, append the record
ProcessRecord ==
    \E line \in NextLines :
        /\ WellFormed(line)
        /\ Read(line)

\* end of file: flush the buffer and report the counts
FinalFlush ==
    /\ pc = "reading"
    /\ open \/ rest = <<>>
    /\ Becomes(Finish(Now))
    /\ open' = FALSE
    /\ UNCHANGED <<input, rest, thresh_sdr, thresh_other, second>>

\* the program is run again on its own output, thresholds unchanged
Rerun ==
    /\ pc = "done"
    /\ ~second.ran
    /\ LET ps == FilterPass([k \in DOMAIN out |-> out[k].line],
                            thresh_sdr, thresh_other)
       IN  second' = [ran |-> TRUE, pc |-> ps.pc, out |-> ps.out,
                      kept_count |-> ps.kept_count,
                      removed_count |-> ps.removed_count]
    /\ UNCHANGED <<input, rest, open, pc, buffer, kept_count, removed_count,
                   out, removed, thresh_sdr, thresh_other>>

Next ==
    \/ PassHeader
    \/ SkipValueError
    \/ RaiseIndexError
    \/ ProcessRecord
    \/ FinalFlush
    \/ Rerun

Spec == Init /\ [][Next]_vars

---------------------------------------------------------------------------
(* Vocabulary of the properties.  These read the input and the thresholds  *)
(* directly and use none of the operators of the walk.                     *)

\* the threshold that applies to a chromosome
ThreshOf(c) == IF c = sdr_chrom THEN thresh_sdr ELSE thresh_other

\* a file parsed line by line: ok marks its records, the well-formed data
\* lines, which have a chromosome and a position
Records(inp) ==
    [k \in DOMAIN inp |->
        IF WellFormed(inp[k])
        THEN [ok |-> TRUE, chrom |-> ChromOf(inp[k]), pos |-> PosOf(inp[k])]
        ELSE [ok |-> FALSE, chrom |-> "", pos |-> 0]]

\* the numbers of the records of a parsed file
Acc(r) == {k \in DOMAIN r : r[k].ok}

\* the numbers of the well-formed data lines of a file: its records
Accepted(inp) == Acc(Records(inp))

\* j and k are records with no record between them, j first
Adj(r, j, k) ==
    /\ r[j].ok
    /\ r[k].ok
    /\ j < k
    /\ \A m \in DOMAIN r : (j < m /\ m < k) => ~r[m].ok

\* record k follows record j on its chromosome within the threshold
Close(r, j, k) ==
    /\ r[j].chrom = r[k].chrom
    /\ r[k].pos - r[j].pos <= ThreshOf(r[k].chrom)

\* record k has a stream neighbour on its chromosome within the threshold
NearIn(r, k) ==
    \E j \in DOMAIN r :
        \/ Adj(r, j, k) /\ Close(r, j, k)
        \/ Adj(r, k, j) /\ Close(r, k, j)

\* the records of a file with such a neighbour
NearSet(inp) ==
    LET r == Records(inp) IN {k \in Acc(r) : NearIn(r, k)}

\* positions do not decrease within a chromosome
Sorted(inp) ==
    LET r == Records(inp)
    IN  \A j, k \in Acc(r) :
            (j < k /\ r[j].chrom = r[k].chrom) => r[k].pos - r[j].pos >= 0

\* the records of each chromosome are consecutive records
Grouped(inp) ==
    LET r == Records(inp)
    IN  \A j, k, m \in Acc(r) :
            (j < k /\ k < m /\ r[j].chrom = r[m].chrom)
                => r[j].chrom = r[k].chrom

\* every two records of one chromosome are farther apart than its threshold
FarApart(inp) ==
    LET r == Records(inp)
    IN  \A j, k \in Acc(r) :
            (j < k /\ r[j].chrom = r[k].chrom)
                => r[k].pos - r[j].pos > ThreshOf(r[j].chrom)

\* no '#' line follows a line that is not one
HeadersFirst(inp) ==
    \A j, k \in DOMAIN inp : (j < k /\ inp[k].hash) => inp[j].hash

IsDataOut(o) == ~o.line.hash
IsDataLine(line) == ~line.hash

\* the text of a sequence of printed lines
LinesOf(o) == [k \in DOMAIN o |-> o[k].line]

\* the data lines printed, in order
DataLinesOf(o) == LinesOf(SelectSeq(o, IsDataOut))

\* the idx of the data lines printed so far
Emitted == {out[p].idx : p \in {q \in DOMAIN out : ~out[q].line.hash}}

Buffered == {buffer[p].idx : p \in DOMAIN buffer}

\* the buffered records not flushed yet: all of them until the final flush
Pending == IF pc = "done" THEN {} ELSE Buffered

\* the well-formed data lines of a file, in order
WellFormedLinesOf(inp) == SelectSeq(inp, WellFormed)

---------------------------------------------------------------------------
(* C1: the record output against the input.                                *)

\* what C1 says of every line printed, apart from the order: it is a line
\* of the input, verbatim, printed once; every '#' line read is printed;
\* a data line printed is a record not counted as removed; and once the
\* run is done every record not counted as removed is printed
OutputFromInput ==
    LET records == Accepted(input)
    IN  /\ \A p \in DOMAIN out :
              /\ out[p].idx \in DOMAIN input
              /\ out[p].line = input[out[p].idx]
        /\ \A p, q \in DOMAIN out : p < q => out[p].idx # out[q].idx
        /\ \A k \in DOMAIN input :
              input[k].hash => \E p \in DOMAIN out : out[p].idx = k
        /\ \A p \in DOMAIN out :
              ~out[p].line.hash
                  => /\ out[p].idx \in records
                     /\ out[p].idx \notin removed
        /\ pc = "done" => Emitted = records \ removed

\* C1 as stated: the lines printed are an order-preserving subsequence of
\* the input: all of OutputFromInput, and any two printed lines stand in
\* the order they have in the input.
C1_OrderPreservingSubsequence ==
    /\ OutputFromInput
    /\ \A p, q \in DOMAIN out : p < q => out[p].idx < out[q].idx

\* C1 as amended: all of OutputFromInput; the '#' lines among themselves
\* and the data lines among themselves are printed in input order; a line
\* is printed ahead of an earlier input line only when it is a '#' line and
\* the earlier line is a data line that was still buffered.
C1_OrderedExceptHeadersOvertake ==
    /\ OutputFromInput
    /\ \A p, q \in DOMAIN out :
          (p < q /\ out[p].idx > out[q].idx)
              => (out[p].line.hash /\ ~out[q].line.hash)

\* a finished run that printed a '#' line ahead of a kept record read
\* before it, and that removed some record
C1_Witness ==
    /\ pc = "done"
    /\ removed # {}
    /\ \E p, q \in DOMAIN out :
          p < q /\ out[p].idx > out[q].idx /\ out[p].line.hash

---------------------------------------------------------------------------
(* C2: malformed data lines.                                               *)

\* a data line with fewer than two fields or a non-integer position
Malformed(line) ==
    /\ ~line.hash
    /\ \/ Len(line.fields) < 2
       \/ ~ParseInt(line.fields[2]).ok

\* C2 as stated: reading a malformed data line prints nothing, changes
\* neither count nor the buffer, and leaves the run reading.
C2_MalformedLineSkipped ==
    [][(/\ pc = "reading"
        /\ Len(input') = Len(input) + 1
        /\ Malformed(input'[Len(input')]))
           => (/\ pc' = "reading"
               /\ UNCHANGED <<buffer, kept_count, removed_count, out>>)]_vars

---------------------------------------------------------------------------
(* C8: the buffer holds one chromosome.                                    *)

\* C8: after each record, every buffered entry has the chromosome of the
\* record appended last, which is the last record read; every record of
\* another chromosome read before it has been flushed (printed or counted
\* as removed) and is no longer buffered.
C8_BufferOneChromosome ==
    buffer # <<>> =>
        LET last == buffer[Len(buffer)]
            r == Records(input)
            buffered == Buffered
            flushed == Emitted \cup removed
        IN  /\ last.idx \in Acc(r)
            /\ \A p \in DOMAIN buffer : buffer[p].chrom = last.chrom
            /\ \A k \in Acc(r) :
                  /\ k <= last.idx
                  /\ r[k].chrom # last.chrom
                        => /\ k \notin buffered
                           /\ k \in flushed

\* while reading: records of two chromosomes were read, one of the first
\* chromosome was flushed as removed at the boundary, and the buffer holds
\* a conflicting pair of the second
C8_Witness ==
    /\ pc = "reading"
    /\ Len(buffer) >= 2
    /\ removed # {}
    /\ \E k \in removed : ChromOf(input[k]) # buffer[1].chrom

---------------------------------------------------------------------------
(* C10: conservation of records.                                           *)

\* C10: every record is pending, printed or counted as removed, and only
\* one of the three; the counts count the printed and the removed; while
\* lines are read kept_count + removed_count + len(buffer) is the number
\* of records read; after the final flush every buffered entry has been
\* flushed and kept_count + removed_count is the number of records.
C10_Conservation ==
    LET records == Accepted(input)
        printed == Emitted
        buffered == Buffered
        pending == Pending
    IN  /\ printed \cup removed \cup pending = records
        /\ printed \cap removed = {}
        /\ pending \cap (printed \cup removed) = {}
        /\ Cardinality(buffered) = Len(buffer)
        /\ kept_count = Len(SelectSeq(out, IsDataOut))
        /\ kept_count = Cardinality(printed)
        /\ removed_count = Cardinality(removed)
        /\ pc # "done" =>
              kept_count + removed_count + Len(buffer) = Cardinality(records)
        /\ pc = "done" =>
              /\ buffered \subseteq printed \cup removed
              /\ kept_count + removed_count = Cardinality(records)

\* a finished run with records flushed during a walk and in the final
\* flush, some printed and some removed
C10_Witness ==
    /\ pc = "done"
    /\ kept_count >= 1
    /\ removed_count >= 2
    /\ Len(buffer) >= 1
    /\ Len(buffer) < kept_count + removed_count

---------------------------------------------------------------------------
(* C3: running the filter on its own output.                               *)

\* the records a run printed lie, chromosome by chromosome, farther apart
\* than the threshold
OutputFarApart(o) == FarApart(LinesOf(o))

\* C3 as stated: for an input sorted within each chromosome, the second
\* run removes nothing: it counts no record as removed and prints the data
\* lines of the first run's output.
C3_SecondRunRemovesNothing ==
    (second.ran /\ Sorted(input))
        => /\ second.removed_count = 0
           /\ DataLinesOf(second.out) = DataLinesOf(out)

\* C3 as amended: for an input sorted within each chromosome whose
\* records are also grouped by chromosome, the records the first run
\* prints lie farther apart than the threshold, the second run counts no
\* record as removed and prints the same data lines, and when moreover no
\* '#' line follows another line of the input the two outputs are equal.
C3_IdempotentOnGroupedInput ==
    /\ (pc = "done" /\ Sorted(input) /\ Grouped(input))
          => OutputFarApart(out)
    /\ (second.ran /\ Sorted(input) /\ Grouped(input))
          => /\ second.pc = "done"
             /\ second.removed_count = 0
             /\ DataLinesOf(second.out) = DataLinesOf(out)
             /\ HeadersFirst(input) => LinesOf(second.out) = LinesOf(out)

\* a second run after a first run that read records of two chromosomes,
\* grouped and sorted, behind a '#' line, removed some and printed one
C3_Witness ==
    /\ second.ran
    /\ Sorted(input) /\ Grouped(input) /\ HeadersFirst(input)
    /\ \E k \in DOMAIN input : input[k].hash
    /\ \E j, k \in Accepted(input) : ChromOf(input[j]) # ChromOf(input[k])
    /\ removed # {}
    /\ Len(DataLinesOf(second.out)) >= 1

---------------------------------------------------------------------------
(* C4: which records are removed.                                          *)

\* C4: for an input sorted within each chromosome, a flushed record was
\* counted as removed exactly when the record just before it or just after
\* it in the stream is on its chromosome within the threshold; a buffered
\* record has lost keep exactly when that holds of the records read so
\* far; so after the final flush the removed records are the members of
\* the runs of linked records and all other records are printed.
C4_RemovedIffNearNeighbour ==
    Sorted(input) =>
        LET near == NearSet(input)
            printed == Emitted
        IN  /\ \A k \in printed \cup removed : (k \in removed) <=> (k \in near)
            /\ \A p \in DOMAIN buffer :
                  buffer[p].keep <=> (buffer[p].idx \notin near)
            /\ pc = "done" =>
                  /\ removed = near
                  /\ printed = Accepted(input) \ near

\* three records of one chromosome, in order: the first two within the
\* threshold and removed, the third beyond it and printed
C4_Witness ==
    /\ pc = "done"
    /\ Sorted(input)
    /\ LET r == Records(input)
       IN  \E i, j, k \in Acc(r) :
              /\ Adj(r, i, j) /\ Adj(r, j, k)
              /\ r[i].chrom = r[j].chrom /\ r[j].chrom = r[k].chrom
              /\ removed = {i, j}
              /\ k \in Emitted

---------------------------------------------------------------------------
(* C5: a distance equal to the threshold is a conflict.                    *)

\* the step reads a record
ReadsRecord ==
    /\ pc = "reading"
    /\ Len(input') = Len(input) + 1
    /\ WellFormed(input'[Len(input')])

\* C5: when a record arrives at exactly the threshold from a buffered
\* record of its chromosome, that record stays buffered with keep false
\* and the arriving record has keep false; a buffered record of the
\* arriving record's chromosome leaves the buffer only at a distance
\* greater than the threshold.  And a finished run over two or more
\* records of one chromosome spaced exactly the threshold apart (ten
\* records, 10 apart, threshold 10) has kept_count = 0 and removed_count
\* the number of records.
C5_EqualDistanceConflicts ==
    /\ [][ReadsRecord =>
            LET line == input'[Len(input')]
                c == ChromOf(line)
                d(q) == PosOf(line) - buffer[q].pos
            IN  \A q \in DOMAIN buffer :
                    buffer[q].chrom = c =>
                        /\ d(q) = ThreshOf(c) =>
                              /\ \E r \in DOMAIN buffer' :
                                    /\ buffer'[r].idx = buffer[q].idx
                                    /\ ~buffer'[r].keep
                              /\ ~buffer'[Len(buffer')].keep
                        /\ buffer[q].idx \notin Buffered' =>
                              d(q) > ThreshOf(c)]_vars
    /\ [](\A c \in Chroms :
            (/\ pc = "done"
             /\ Len(input) >= 2
             /\ input = EvenFile(c, Len(input), ThreshOf(c)))
                => (kept_count = 0 /\ removed_count = Len(input)))

\* the run over RunLen records spaced DefaultMinThreshold apart, under
\* that threshold, finished with every record removed
C5_Witness ==
    /\ pc = "done"
    /\ thresh_sdr = DefaultMinThreshold
    /\ input = EvenFile(sdr_chrom, RunLen, DefaultMinThreshold)
    /\ kept_count = 0
    /\ removed_count = RunLen

---------------------------------------------------------------------------
(* C6: chromosomes do not interact.                                        *)

\* C6: in every step, a record whose keep is false after the step and was
\* not false before it is either the arriving record, and then a buffered
\* record of its chromosome lies within the threshold before it, or a
\* buffered record, and then the arriving record is of its chromosome and
\* within the threshold after it; a buffered record of another chromosome
\* than the arriving record is flushed with the keep it had.
C6_OnlySameChromosomeRemoves ==
    [][/\ \A r \in DOMAIN buffer' :
            LET f == buffer'[r]
                cur == buffer'[Len(buffer')]
                wasFalse == \E q \in DOMAIN buffer :
                                buffer[q].idx = f.idx /\ ~buffer[q].keep
            IN  (~f.keep /\ ~wasFalse) =>
                    IF f.idx = cur.idx
                    THEN \E q \in DOMAIN buffer :
                            /\ buffer[q].chrom = f.chrom
                            /\ f.pos - buffer[q].pos <= ThreshOf(f.chrom)
                    ELSE /\ cur.chrom = f.chrom
                         /\ cur.pos - f.pos <= ThreshOf(f.chrom)
       /\ ReadsRecord =>
            \A q \in DOMAIN buffer :
                buffer[q].chrom # ChromOf(input'[Len(input')]) =>
                    /\ buffer[q].idx \notin Buffered'
                    /\ buffer[q].keep => buffer[q].idx \in Emitted'
                    /\ ~buffer[q].keep => buffer[q].idx \in removed']_vars

\* a finished run over records of two chromosomes, interleaved and at one
\* position, all three printed
C6_Witness ==
    /\ pc = "done"
    /\ LET r == Records(input)
       IN  \E i, j, k \in Acc(r) :
              /\ i < j /\ j < k
              /\ r[i].chrom = r[k].chrom /\ r[i].chrom # r[j].chrom
              /\ r[i].pos = r[j].pos /\ r[j].pos = r[k].pos
              /\ {i, j, k} \subseteq Emitted

---------------------------------------------------------------------------
(* C7: no spurious removal.                                                *)

\* the lines of a file that do not start with '#'
AllDataLinesOf(inp) == SelectSeq(inp, IsDataLine)

\* C7 as stated: for a sorted input whose records lie, chromosome by
\* chromosome, farther apart than the threshold, the finished run has
\* printed every data line of the input, in order, and removed none.
C7_EveryDataLinePrinted ==
    (pc = "done" /\ Sorted(input) /\ FarApart(input))
        => /\ DataLinesOf(out) = AllDataLinesOf(input)
           /\ removed_count = 0

\* C7 as amended: for such an input no record is ever counted as removed
\* or loses keep; the data lines printed followed by the buffered ones are
\* the well-formed data lines read so far, in order; and the finished run
\* has printed exactly the well-formed data lines of the input, in order
\* (a malformed data line is not printed).
C7_EveryRecordPrinted ==
    (Sorted(input) /\ FarApart(input))
        => /\ removed_count = 0
           /\ \A p \in DOMAIN buffer : buffer[p].keep
           /\ pc # "done" =>
                 DataLinesOf(out) \o LinesOf(buffer)
                     = WellFormedLinesOf(input)
           /\ pc = "done" => DataLinesOf(out) = WellFormedLinesOf(input)

\* a finished run over a sorted, far-apart input with two records of one
\* chromosome, a malformed data line and a '#' line
C7_Witness ==
    /\ pc = "done"
    /\ Sorted(input) /\ FarApart(input)
    /\ \E j, k \in Accepted(input) :
          j < k /\ ChromOf(input[j]) = ChromOf(input[k])
    /\ \E k \in DOMAIN input : Malformed(input[k])
    /\ \E k \in DOMAIN input : input[k].hash
    /\ Len(DataLinesOf(out)) >= 2

---------------------------------------------------------------------------
(* C9: keep only falls.                                                    *)

\* C9: a record is created with keep true: the arriving record has keep
\* false after its step only if a buffered record of its chromosome lies
\* within the threshold; no step sets a buffered record's keep from false
\* to true; what was printed or counted as removed stays so; no record is
\* both printed and counted as removed, a printed record has keep true
\* and a removed one keep false wherever it is still held.
C9_KeepOnlyFalls ==
    /\ [][/\ ReadsRecord =>
               LET cur == buffer'[Len(buffer')]
               IN  \/ cur.keep
                   \/ \E q \in DOMAIN buffer :
                         /\ buffer[q].chrom = cur.chrom
                         /\ cur.pos - buffer[q].pos <= ThreshOf(cur.chrom)
          /\ \A q \in DOMAIN buffer, r \in DOMAIN buffer' :
                (buffer[q].idx = buffer'[r].idx /\ buffer'[r].keep)
                    => buffer[q].keep
          /\ Emitted \subseteq Emitted'
          /\ removed \subseteq removed']_vars
    /\ [](/\ Emitted \cap removed = {}
          /\ \A p \in DOMAIN buffer :
                /\ buffer[p].idx \in Emitted => buffer[p].keep
                /\ buffer[p].idx \in removed => ~buffer[p].keep)

\* while reading: a buffered record has lost keep, one record was printed
\* and one counted as removed
C9_Witness ==
    /\ pc = "reading"
    /\ \E p \in DOMAIN buffer : ~buffer[p].keep
    /\ Emitted # {}
    /\ removed # {}

===========================================================================
